---- MODULE Spec2Model ----
(***************************************************************************)
(* Model of app_consumo_rocadeira.py: a Streamlit script over two SQLite   *)
(* tables (abastecimentos, modelos), the row-wise derived metrics          *)
(* (compute_costs, add_derivatives) and the report aggregations.           *)
(*                                                                         *)
(* Numbers are exact rationals n/d (floating-point rounding is not         *)
(* modelled); the non-finite floats NaN, +inf, -inf and Python's None are  *)
(* separate kinds of value, because the code tells them apart.             *)
(***************************************************************************)
EXTENDS Integers, Sequences, FiniteSets, TLC

VARIABLES abastecimentos, modelos, report, cc_in, cc_out, rk_head, rk_fill, rk_out

vars == <<abastecimentos, modelos, report, cc_in, cc_out, rk_head, rk_fill, rk_out>>

dbvars == <<abastecimentos, modelos, report>>
ccvars == <<cc_in, cc_out>>
rkvars == <<rk_head, rk_fill, rk_out>>

(***************************************************************************)
(* Bounds of the model.                                                    *)
(***************************************************************************)
MaxRows == 3
MaxFile == 2
MaxHead == 2
MaxOver == 1

(***************************************************************************)
(* Values: a float (finite rational, NaN, +inf, -inf), None, or a text     *)
(* cell of a spreadsheet that is not a number.                             *)
(***************************************************************************)
Abs(i) == IF i < 0 THEN 0 - i ELSE i

RECURSIVE GCD(_, _)
GCD(a, b) == IF b = 0 THEN a ELSE GCD(b, a % b)

Rat(n, d) ==
  LET s == IF d < 0 THEN 0 - 1 ELSE 1
      g == GCD(Abs(n), Abs(d))
  IN [k |-> "num", n |-> (s * n) \div g, d |-> (s * d) \div g]

Num(i) == [k |-> "num", n |-> i, d |-> 1]
None == [k |-> "None", n |-> 0, d |-> 1]
NaN == [k |-> "NaN", n |-> 0, d |-> 1]
Inf == [k |-> "Inf", n |-> 0, d |-> 1]
NegInf == [k |-> "NegInf", n |-> 0, d |-> 1]
Text == [k |-> "str", n |-> 0, d |-> 1]

IsNum(v) == v.k = "num"
\* pd.isna / pd.notna: None and NaN are both missing.
IsNA(v) == v.k \in {"None", "NaN"}
NotNA(v) == ~IsNA(v)
\* np.isfinite
IsFinite(v) == v.k = "num"

Sign(v) ==
  CASE v.k = "Inf" -> 1
    [] v.k = "NegInf" -> 0 - 1
    [] OTHER -> IF v.n > 0 THEN 1 ELSE IF v.n < 0 THEN 0 - 1 ELSE 0

SignedInf(s) == IF s > 0 THEN Inf ELSE IF s < 0 THEN NegInf ELSE NaN

\* Float division as pandas/numpy compute it: a missing operand gives NaN,
\* x/0 is +-inf, 0/0 is NaN, and no exception is raised.
FDiv(a, b) ==
  IF IsNA(a) \/ IsNA(b) THEN NaN
  ELSE IF IsNum(a) /\ IsNum(b)
       THEN IF b.n = 0 THEN SignedInf(Sign(a)) ELSE Rat(a.n * b.d, a.d * b.n)
  ELSE IF IsNum(b)
       THEN IF b.n = 0 THEN a ELSE SignedInf(Sign(a) * Sign(b))
  ELSE IF IsNum(a) THEN Num(0)
  ELSE NaN

FMul(a, b) ==
  IF IsNA(a) \/ IsNA(b) THEN NaN
  ELSE IF IsNum(a) /\ IsNum(b) THEN Rat(a.n * b.n, a.d * b.d)
  ELSE SignedInf(Sign(a) * Sign(b))

FAdd(a, b) ==
  IF IsNA(a) \/ IsNA(b) THEN NaN
  ELSE IF IsNum(a) /\ IsNum(b) THEN Rat(a.n * b.d + b.n * a.d, a.d * b.d)
  ELSE IF IsNum(a) THEN b
  ELSE IF IsNum(b) THEN a
  ELSE IF a = b THEN a ELSE NaN

FSub(a, b) == FAdd(a, FMul(Num(0 - 1), b))

\* Python's a > 0 on a float: False for NaN.
GtZero(v) == Sign(v) > 0 /\ ~IsNA(v)
LeZero(v) == ~IsNA(v) /\ Sign(v) <= 0
EqZero(v) == IsNum(v) /\ v.n = 0

\* a < b on floats that are not NaN.
FLess(a, b) ==
  IF IsNum(a) /\ IsNum(b) THEN a.n * b.d < b.n * a.d
  ELSE IF a = b THEN FALSE
  ELSE IF a.k = "NegInf" \/ b.k = "Inf" THEN TRUE
  ELSE FALSE

M2_PER_HA == 10000

\* to_m2
to_m2(area_valor, area_unidade) ==
  FMul(area_valor, IF area_unidade = "ha" THEN Num(M2_PER_HA) ELSE Num(1))

\* compute_costs without the test that the cost is missing.
compute_costs_overwrite(litros, preco_por_litro, custo_total) ==
  LET p1 == IF preco_por_litro = None /\ custo_total # None /\ GtZero(litros)
            THEN FDiv(custo_total, litros)
            ELSE preco_por_litro
      c1 == IF p1 # None THEN FMul(p1, litros) ELSE custo_total
  IN <<p1, c1>>

\* compute_costs: "is None" is true of None only, never of NaN.
compute_costs(litros, preco_por_litro, custo_total) ==
  LET p1 == IF preco_por_litro = None /\ custo_total # None /\ GtZero(litros)
            THEN FDiv(custo_total, litros)
            ELSE preco_por_litro
      c1 == IF custo_total = None /\ p1 # None
            THEN FMul(p1, litros)
            ELSE custo_total
  IN <<p1, c1>>

(***************************************************************************)
(* The database.  abastecimentos and modelos are the two tables, each a    *)
(* sequence of rows in rowid order (the AUTOINCREMENT id of a fuel-log row *)
(* is its position).  A TEXT column that holds SQL NULL holds NULL.        *)
(* The columns equipamento and observacoes take part in no computation     *)
(* and are left out.                                                       *)
(***************************************************************************)
NULL == "<NULL>"
Dash == "-"

Row(data, marca, modelo, litros, horas, area_valor, area_unidade, ppl, ct) ==
  [data |-> data, marca |-> marca, modelo |-> modelo, litros |-> litros,
   horas |-> horas, area_valor |-> area_valor, area_unidade |-> area_unidade,
   preco_por_litro |-> ppl, custo_total |-> ct]

Modelo(marca, modelo, consumo) ==
  [marca |-> marca, modelo |-> modelo, consumo_fabricante_l_h |-> consumo]

\* init_db: both tables are created empty.
init_db == [ab |-> <<>>, mo |-> <<>>]

\* count_rows
count_rows(table) == Len(table)

\* A value bound to a REAL column: sqlite stores a NaN as NULL.
Bind(v) == IF v.k = "NaN" THEN None ELSE v

\* float(x) if pd.notna(x) else None
OptFloat(cell) == IF NotNA(cell) THEN cell ELSE None

\* The Python expressions of one INSERT raise ValueError when float() is
\* given a text cell.
AbastRaises(r) ==
  \/ r.litros.k = "str" \/ r.horas.k = "str" \/ r.area_valor.k = "str"
  \/ r.preco_por_litro.k = "str" \/ r.custo_total.k = "str"

\* The row the INSERT of the import and of the seed binds.
AbastBound(r) ==
  Row(r.data, r.marca, r.modelo, Bind(r.litros), Bind(r.horas), Bind(r.area_valor),
      r.area_unidade, OptFloat(r.preco_por_litro), OptFloat(r.custo_total))

\* The constraints of CREATE TABLE abastecimentos.
AbastConstraintsOk(row) ==
  /\ row.data # NULL
  /\ row.litros # None /\ row.horas # None /\ row.area_valor # None
  /\ row.area_unidade # NULL
  /\ row.area_unidade \in {"m2", "ha"}

AbastRowFails(r) == AbastRaises(r) \/ ~AbastConstraintsOk(AbastBound(r))

\* for _, r in dfu.iterrows(): conn.execute(INSERT ...); ok += 1
\* The loop stops at the first row that raises.
RECURSIVE abast_loop(_, _, _, _)
abast_loop(conn, file, i, ok) ==
  IF i > Len(file) THEN [exc |-> FALSE, conn |-> conn, ok |-> ok]
  ELSE IF AbastRowFails(file[i]) THEN [exc |-> TRUE, conn |-> conn, ok |-> ok]
  ELSE abast_loop(Append(conn, AbastBound(file[i])), file, i + 1, ok + 1)

\* with sqlite3.connect(DB_PATH) as conn: commits when the block ends
\* normally and rolls back when it is left by an exception.
abast_tx(table, file) ==
  LET res == abast_loop(table, file, 1, 0)
  IN [exc |-> res.exc, table |-> IF res.exc THEN table ELSE res.conn, ok |-> res.ok]

\* The constraints of CREATE TABLE modelos other than UNIQUE.
CatRaises(r) == r.consumo_fabricante_l_h.k = "str"
CatBound(r) == Modelo(r.marca, r.modelo, OptFloat(r.consumo_fabricante_l_h))
CatRowFails(r) == CatRaises(r) \/ r.marca = NULL \/ r.modelo = NULL

HasPair(table, marca, modelo) ==
  \E i \in 1..Len(table) : table[i].marca = marca /\ table[i].modelo = modelo

\* INSERT OR REPLACE: the old row is deleted and a new one is inserted.
upsert_sql_replace(table, m) ==
  Append(SelectSeq(table, LAMBDA r : ~(r.marca = m.marca /\ r.modelo = m.modelo)), m)

\* INSERT ... ON CONFLICT(marca, modelo) DO UPDATE SET consumo_fabricante_l_h
upsert_sql(table, m) ==
  IF HasPair(table, m.marca, m.modelo)
  THEN [i \in 1..Len(table) |->
          IF table[i].marca = m.marca /\ table[i].modelo = m.modelo
          THEN [table[i] EXCEPT !.consumo_fabricante_l_h = m.consumo_fabricante_l_h]
          ELSE table[i]]
  ELSE Append(table, m)

\* INSERT OR IGNORE
insert_or_ignore(table, m) ==
  IF HasPair(table, m.marca, m.modelo) THEN table ELSE Append(table, m)

\* upsert_modelo
upsert_modelo(table, marca, modelo, consumo) ==
  upsert_sql(table, Modelo(marca, modelo, consumo))

RECURSIVE cat_loop(_, _, _, _, _)
cat_loop(conn, file, i, ok, ignore) ==
  IF i > Len(file) THEN [exc |-> FALSE, conn |-> conn, ok |-> ok]
  ELSE IF CatRowFails(file[i]) THEN [exc |-> TRUE, conn |-> conn, ok |-> ok]
  ELSE cat_loop(IF ignore THEN insert_or_ignore(conn, CatBound(file[i]))
                ELSE upsert_sql(conn, CatBound(file[i])),
                file, i + 1, ok + 1, ignore)

cat_tx(table, file, ignore) ==
  LET res == cat_loop(table, file, 1, 0, ignore)
  IN [exc |-> res.exc, table |-> IF res.exc THEN table ELSE res.conn, ok |-> res.ok]

\* insert_row
insert_row(table, data, marca, modelo, litros, horas, area_valor, area_unidade, ppl, ct) ==
  Append(table, Row(data, marca, modelo, litros, horas, area_valor, area_unidade, ppl, ct))

(***************************************************************************)
(* The spreadsheets.  The two seed files under assets/ are data, not code; *)
(* the model gives them the content of a plausible example and takes them  *)
(* to be readable on every run.                                            *)
(***************************************************************************)
D_Jan05 == <<2024, 1, 5>>
D_Jan20 == <<2024, 1, 20>>
D_Feb03 == <<2024, 2, 3>>

SeedCatalogo ==
  << [marca |-> "A", modelo |-> "X", consumo_fabricante_l_h |-> Num(6)] >>

SeedAbastecimentos ==
  << Row(D_Jan05, "A", "X", Num(10), Num(2), Num(10000), "m2", Num(2), Num(20)) >>

\* Rows an uploaded fuel-log spreadsheet is made of.
ImportRows ==
  { Row(D_Jan20, "B", "X", Num(20), Num(5), Num(4), "ha", NaN, Num(50)),
    Row(D_Feb03, "A", "X", Num(10), Num(0), Num(0), "ha", Num(2), NaN),
    Row(D_Feb03, NULL, "X", Num(10), Num(2), Num(1), "ha", NaN, NaN),
    Row(D_Jan20, "A", "X", Text, Num(2), Num(1), "ha", NaN, NaN),
    Row(D_Jan20, "A", "X", Num(10), Num(2), Num(1), "km2", NaN, NaN) }

\* Rows an uploaded catalog spreadsheet is made of.
CatalogRows ==
  { [marca |-> "A", modelo |-> "X", consumo_fabricante_l_h |-> Num(0)],
    [marca |-> "B", modelo |-> "X", consumo_fabricante_l_h |-> NaN],
    [marca |-> "B", modelo |-> "X", consumo_fabricante_l_h |-> Text] }

RECURSIVE SeqsUpTo(_, _)
SeqsUpTo(S, n) ==
  IF n = 0 THEN {<<>>}
  ELSE LET shorter == SeqsUpTo(S, n - 1)
       IN shorter \cup {Append(f, x) : f \in {g \in shorter : Len(g) = n - 1}, x \in S}

AbastFiles == SeqsUpTo(ImportRows, MaxFile)
CatalogFiles == SeqsUpTo(CatalogRows, MaxFile)

\* What the operator can enter in the registration and catalog forms.
FormDates == {D_Jan05}
FormLitros == {Num(0), Num(10)}
FormHoras == {Num(0), Num(2)}
FormArea == {Num(0), Num(1)}
FormUnits == {"ha"}
FormPreco == {Num(0), Num(2)}
FormCusto == {Num(0), Num(20)}
FormConsumo == {Num(0), Num(6)}

(***************************************************************************)
(* The script.  Streamlit runs it from the top on every interaction:       *)
(* init_db(), seed_from_assets(), then the tab whose widget was used.      *)
(***************************************************************************)
\* seed_from_assets
seed_from_assets(db) ==
       LET mo1 == IF count_rows(db.mo) = 0
                  THEN cat_tx(db.mo, SeedCatalogo, TRUE).table ELSE db.mo
           ab1 == IF count_rows(db.ab) = 0
                  THEN abast_tx(db.ab, SeedAbastecimentos).table ELSE db.ab
       IN [ab |-> ab1, mo |-> mo1]

\* What the last run showed about an import: op and n are the message (n is
\* the count of "... importados: n linhas", NoCount when the failure message
\* was shown instead); the other fields record what became of the file:
\* whether it had a malformed row, whether a well-formed row of it is not
\* in the table, and how many of its rows the run stored.
NoCount == 0 - 1
NoReport == [op |-> "none", n |-> NoCount, bad |-> FALSE, lost |-> FALSE, stored |-> 0]

Marcas(mo) == {mo[i].marca : i \in 1..Len(mo)}
ModelosDe(mo, marca) == {mo[i].modelo : i \in {j \in 1..Len(mo) : mo[j].marca = marca}}

\* The selectboxes offer the catalog's brands, or the dash when it is empty.
MarcaOptions(mo) == IF Marcas(mo) = {} THEN {Dash} ELSE Marcas(mo)
ModeloOptions(mo, marca) ==
  IF marca = Dash \/ ModelosDe(mo, marca) = {} THEN {Dash} ELSE ModelosDe(mo, marca)

\* The registration form with 0 kept as a supplied value.
ZeroToNone_keep(v) == v

\* 0 entered in an optional number field means not supplied.
ZeroToNone(v) == IF EqZero(v) THEN None ELSE v

FormRejects(marca, modelo, litros, horas, area_valor) ==
  marca = Dash \/ modelo = Dash \/ LeZero(litros) \/ LeZero(horas) \/ LeZero(area_valor)

(***************************************************************************)
(* Reading the tables and the row-wise derived metrics.                    *)
(***************************************************************************)
\* A sequence given as a function on 1..n, with its elements computed.
AsSeq(f) == f \o <<>>

\* A nullable REAL column read by pd.read_sql_query: a column whose values
\* are all NULL arrives as Python None objects, any other column is a float
\* column in which NULL is NaN.
ReadReal(table, col, i) ==
  LET v == table[i][col]
  IN IF v = None
     THEN IF \A j \in 1..Len(table) : table[j][col] = None THEN None ELSE NaN
     ELSE v

DateNum(d) == (d[1] * 12 + d[2]) * 31 + d[3]

\* ORDER BY date(data) DESC, id DESC
LoadBefore(a, b) ==
  \/ DateNum(a.data) > DateNum(b.data)
  \/ DateNum(a.data) = DateNum(b.data) /\ a.id > b.id

RECURSIVE InsertLoaded(_, _)
InsertLoaded(sorted, r) ==
  IF sorted = <<>> THEN <<r>>
  ELSE IF LoadBefore(r, Head(sorted)) THEN <<r>> \o sorted
  ELSE <<Head(sorted)>> \o InsertLoaded(Tail(sorted), r)

RECURSIVE OrderLoaded(_, _)
OrderLoaded(rows, i) ==
  IF i > Len(rows) THEN <<>>
  ELSE InsertLoaded(OrderLoaded(rows, i + 1), rows[i])

\* load_df
load_df(table) ==
  OrderLoaded(AsSeq([i \in 1..Len(table) |->
     [id |-> i, data |-> table[i].data, marca |-> table[i].marca,
      modelo |-> table[i].modelo, litros |-> table[i].litros, horas |-> table[i].horas,
      area_valor |-> table[i].area_valor, area_unidade |-> table[i].area_unidade,
      preco_por_litro |-> ReadReal(table, "preco_por_litro", i),
      custo_total |-> ReadReal(table, "custo_total", i)]]), 1)

\* load_modelos (the ORDER BY has no effect on what the reports compute)
load_modelos(table) ==
  AsSeq([i \in 1..Len(table) |->
     [marca |-> table[i].marca, modelo |-> table[i].modelo,
      consumo_fabricante_l_h |-> ReadReal(table, "consumo_fabricante_l_h", i)]])

\* .replace([pd.NA, pd.NaT], pd.NA): a missing value stays missing, every
\* other value (the infinities included) is kept.
ReplaceNA(v) == IF IsNA(v) THEN NaN ELSE v

\* One row of add_derivatives.
derive_row(r) ==
  LET area_m2 == to_m2(r.area_valor, r.area_unidade)
      cc == compute_costs(r.litros, r.preco_por_litro, r.custo_total)
      ha == FDiv(area_m2, Num(M2_PER_HA))
  IN [id |-> r.id, data |-> r.data, marca |-> r.marca, modelo |-> r.modelo,
      litros |-> r.litros, horas |-> r.horas, area_valor |-> r.area_valor,
      area_unidade |-> r.area_unidade, area_m2 |-> area_m2,
      L_h |-> ReplaceNA(FDiv(r.litros, r.horas)),
      L_m2 |-> ReplaceNA(FDiv(r.litros, area_m2)),
      L_ha |-> ReplaceNA(FDiv(r.litros, ha)),
      preco_por_litro |-> cc[1], custo_total |-> cc[2],
      Custo_h |-> ReplaceNA(FDiv(cc[2], r.horas)),
      Custo_ha |-> ReplaceNA(FDiv(cc[2], ha))]

\* add_derivatives
add_derivatives(df) == AsSeq([i \in 1..Len(df) |-> derive_row(df[i])])

\* The frame every tab works on.
Derived == add_derivatives(load_df(abastecimentos))

(***************************************************************************)
(* The aggregations of the reports tab (pandas groupby, merge, sort).      *)
(***************************************************************************)
\* The column col of the rows of df that satisfy P, in frame order.
Column(df, col, P(_)) ==
  LET rows == SelectSeq(df, P) IN AsSeq([i \in 1..Len(rows) |-> rows[i][col]])

RECURSIVE SumFrom(_, _)
SumFrom(vals, i) ==
  IF i > Len(vals) THEN Num(0)
  ELSE IF IsNA(vals[i]) THEN SumFrom(vals, i + 1)
  ELSE FAdd(vals[i], SumFrom(vals, i + 1))

\* The groupby "sum": missing values are skipped and min_count is 0, so
\* the sum of no value at all is 0.
agg_sum(vals) == SumFrom(vals, 1)

CountNotNA(vals) == Cardinality({i \in 1..Len(vals) : NotNA(vals[i])})

\* The groupby "mean": missing values are skipped; NaN when none is left.
agg_mean(vals) ==
  IF CountNotNA(vals) = 0 THEN NaN ELSE FDiv(SumFrom(vals, 1), Num(CountNotNA(vals)))

\* The groupby "first": the first value that is not missing, NaN when none.
agg_first(vals) ==
  IF CountNotNA(vals) = 0 THEN NaN
  ELSE vals[CHOOSE i \in 1..Len(vals) :
              NotNA(vals[i]) /\ \A j \in 1..(i - 1) : IsNA(vals[j])]

\* The keys of a groupby come out sorted; rank gives each key its place.
SortedKeys(keys, rank) ==
  AsSeq([p \in 1..Cardinality(keys) |->
     CHOOSE k \in keys : Cardinality({l \in keys : rank[l] < rank[k]}) = p - 1])

\* month_str with the format "%Y".
month_str_year(d) == <<d[1], 1>>

\* month_str: the "%Y-%m" of a date.
month_str(d) == <<d[1], d[2]>>

MesKeys(df) ==
  LET keys == {month_str(df[i].data) : i \in 1..Len(df)}
  IN SortedKeys(keys, [k \in keys |-> k[1] * 12 + k[2]])

\* dff.groupby("mes").agg(...).reset_index()
mensal_agg(df) ==
  LET keys == MesKeys(df)
  IN AsSeq([g \in 1..Len(keys) |->
        LET InMes(r) == month_str(r.data) = keys[g]
        IN [mes |-> keys[g],
            litros_total |-> agg_sum(Column(df, "litros", InMes)),
            horas_total |-> agg_sum(Column(df, "horas", InMes)),
            area_total_m2 |-> agg_sum(Column(df, "area_m2", InMes)),
            custo_total |-> agg_sum(Column(df, "custo_total", InMes))]])

\* dff.groupby("mes")[col].mean().values
mensal_mean(df, col) ==
  LET keys == MesKeys(df)
  IN AsSeq([g \in 1..Len(keys) |->
        LET InMes(r) == month_str(r.data) = keys[g]
        IN agg_mean(Column(df, col, InMes))])

\* 1) Consolidado Mensal: the two mean columns are attached by position.
consolidado_mensal(df) ==
  LET agg == mensal_agg(df)
      lh == mensal_mean(df, "L_h")
      lha == mensal_mean(df, "L_ha")
  IN AsSeq([g \in 1..Len(agg) |->
        [mes |-> agg[g].mes, litros_total |-> agg[g].litros_total,
         horas_total |-> agg[g].horas_total, area_total_m2 |-> agg[g].area_total_m2,
         custo_total |-> agg[g].custo_total,
         L_h_medio |-> lh[g], L_ha_medio |-> lha[g]]])

\* Text order of the brand and model names the model uses.
StrOrder == <<"A", "B", "X">>
StrRank(str) == CHOOSE i \in 1..Len(StrOrder) : StrOrder[i] = str

\* groupby(["marca","modelo"]) drops the rows whose key has a missing part.
EquipKeys(df) ==
  LET keys == {<<df[i].marca, df[i].modelo>> :
                 i \in {j \in 1..Len(df) : df[j].marca # NULL /\ df[j].modelo # NULL}}
  IN SortedKeys(keys, [k \in keys |-> StrRank(k[1]) * (Len(StrOrder) + 1) + StrRank(k[2])])

\* 2) Por Equipamento
por_equipamento(df) ==
  LET keys == EquipKeys(df)
  IN AsSeq([g \in 1..Len(keys) |->
        LET InGroup(r) == r.marca = keys[g][1] /\ r.modelo = keys[g][2]
        IN [marca |-> keys[g][1], modelo |-> keys[g][2],
            abastecimentos |-> Len(SelectSeq(df, InGroup)),
            litros |-> agg_sum(Column(df, "litros", InGroup)),
            horas |-> agg_sum(Column(df, "horas", InGroup)),
            area_m2 |-> agg_sum(Column(df, "area_m2", InGroup)),
            custo_total |-> agg_sum(Column(df, "custo_total", InGroup)),
            L_h_medio |-> agg_mean(Column(df, "L_h", InGroup)),
            L_ha_medio |-> agg_mean(Column(df, "L_ha", InGroup))]])

HeadLimit == 50

\* The order of a sort with na_position="first".
SortsBefore_NaFirst(a, b) ==
  IF IsNA(b) THEN FALSE
  ELSE IF IsNA(a) THEN TRUE
  ELSE FLess(a, b)

\* The order of sort_values: ascending, missing values last.
SortsBefore(a, b) ==
  IF IsNA(a) THEN FALSE
  ELSE IF IsNA(b) THEN TRUE
  ELSE FLess(a, b)

\* The place of record i in the sorted frame: after the records that sort
\* before it and after the earlier records of equal value.
SortPosition(df, i) ==
  1 + Cardinality({j \in 1..Len(df) :
                     \/ SortsBefore(df[j].L_ha, df[i].L_ha)
                     \/ /\ ~SortsBefore(df[i].L_ha, df[j].L_ha)
                        /\ j < i})

\* df.sort_values("L/ha")
sort_values(df) ==
  LET pos == AsSeq([i \in 1..Len(df) |-> SortPosition(df, i)])
  IN AsSeq([p \in 1..Len(df) |-> df[CHOOSE i \in 1..Len(df) : pos[i] = p]])

\* .head(n)
head(df, n) == IF Len(df) <= n THEN df ELSE SubSeq(df, 1, n)

\* 3) Ranking por Eficiencia
ranking(df) == head(sort_values(df), HeadLimit)

\* np.round(x, 1): to the nearest tenth, a tie to the even one.
np_round1(v) ==
  IF ~IsNum(v) THEN v
  ELSE LET p == v.n * 10
           fl == p \div v.d
           r2 == 2 * (p - fl * v.d)
           up == r2 > v.d \/ (r2 = v.d /\ fl % 2 = 1)
       IN Rat(IF up THEN fl + 1 ELSE fl, 10)

\* df.merge(modelos_df, on=["marca","modelo"], how="left"): the rated
\* consumption of the row's pair, NaN when the catalog has no such pair.
merged_consumo(mo, r) ==
  IF HasPair(mo, r.marca, r.modelo)
  THEN mo[CHOOSE i \in 1..Len(mo) : mo[i].marca = r.marca /\ mo[i].modelo = r.modelo]
         .consumo_fabricante_l_h
  ELSE NaN

\* The percentage without the guard of np.where.
dif_pct_unguarded(real_Lh, fab_Lh) ==
  np_round1(FMul(FDiv(FSub(real_Lh, fab_Lh), fab_Lh), Num(100)))

\* The guarded percentage of the comparison.
dif_pct(real_Lh, fab_Lh) ==
  LET dif == FDiv(FSub(real_Lh, fab_Lh), fab_Lh)
  IN np_round1(IF GtZero(fab_Lh) /\ IsFinite(dif) THEN FMul(dif, Num(100)) ELSE NaN)

\* 4) Consumo Real x Fabricante
real_x_fabricante(df, mo) ==
  LET keys == EquipKeys(df)
      dfm == AsSeq([i \in 1..Len(df) |->
                [marca |-> df[i].marca, modelo |-> df[i].modelo, L_h |-> df[i].L_h,
                 consumo_fabricante_l_h |-> merged_consumo(mo, df[i])]])
  IN AsSeq([g \in 1..Len(keys) |->
        LET InGroup(r) == r.marca = keys[g][1] /\ r.modelo = keys[g][2]
            real_Lh == agg_mean(Column(dfm, "L_h", InGroup))
            fab_Lh == ReplaceNA(agg_first(Column(dfm, "consumo_fabricante_l_h", InGroup)))
        IN [marca |-> keys[g][1], modelo |-> keys[g][2],
            real_Lh |-> real_Lh, fab_Lh |-> fab_Lh, dif_pct |-> dif_pct(real_Lh, fab_Lh)]])

(***************************************************************************)
(* The database application.                                               *)
(***************************************************************************)
NoCall == <<>>

Init ==
  /\ abastecimentos = init_db.ab
  /\ modelos = init_db.mo
  /\ report = NoReport
  /\ cc_in = <<Num(0), None, None>>
  /\ cc_out = NoCall
  /\ rk_head = <<>>
  /\ rk_fill = 0
  /\ rk_out = <<>>

\* A run of the script in which no button is pressed.
Rerun ==
    LET db == seed_from_assets([ab |-> abastecimentos, mo |-> modelos])
    IN /\ abastecimentos' = db.ab
       /\ modelos' = db.mo
       /\ report' = NoReport
       /\ UNCHANGED <<ccvars, rkvars>>

\* tab_reg: "Salvar abastecimento" pressed with the given widget values.
SubmitFormWith(marca, modelo, data, litros, horas, area_valor, area_unidade, preco, custo) ==
    LET db == seed_from_assets([ab |-> abastecimentos, mo |-> modelos])
        preco_por_litro == ZeroToNone(preco)
        custo_total == ZeroToNone(custo)
        cc == compute_costs(litros, preco_por_litro, custo_total)
    IN /\ marca \in MarcaOptions(db.mo)
       /\ modelo \in ModeloOptions(db.mo, marca)
       /\ modelos' = db.mo
       /\ IF FormRejects(marca, modelo, litros, horas, area_valor)
          THEN /\ abastecimentos' = db.ab
               /\ report' = NoReport
          ELSE /\ Len(db.ab) < MaxRows
               /\ abastecimentos' = insert_row(db.ab, data, marca, modelo, litros, horas,
                                               area_valor, area_unidade, cc[1], cc[2])
               /\ report' = NoReport
       /\ UNCHANGED <<ccvars, rkvars>>

\* tab_reg: "Salvar abastecimento".
SubmitForm ==
    LET db == seed_from_assets([ab |-> abastecimentos, mo |-> modelos])
    IN \E marca \in MarcaOptions(db.mo) : \E modelo \in ModeloOptions(db.mo, marca) :
       \E data \in FormDates, litros \in FormLitros, horas \in FormHoras,
          area_valor \in FormArea, area_unidade \in FormUnits,
          preco \in FormPreco, custo \in FormCusto :
         SubmitFormWith(marca, modelo, data, litros, horas, area_valor, area_unidade,
                        preco, custo)

\* tab_cat: "Salvar consumo do fabricante".
SaveCatalog ==
    LET db == seed_from_assets([ab |-> abastecimentos, mo |-> modelos])
    IN /\ db.mo # <<>>
       /\ \E marca_e \in Marcas(db.mo) : \E modelo_e \in ModelosDe(db.mo, marca_e) :
          \E consumo_e \in FormConsumo :
            /\ modelos' = upsert_modelo(db.mo, marca_e, modelo_e,
                                        IF GtZero(consumo_e) THEN consumo_e ELSE None)
            /\ abastecimentos' = db.ab
            /\ report' = NoReport
       /\ UNCHANGED <<ccvars, rkvars>>

Count(file, P(_)) == Cardinality({i \in 1..Len(file) : P(file[i])})
GoodAbast(r) == ~AbastRowFails(r)
GoodCat(r) == ~CatRowFails(r)

\* The last well-formed row of the file for the pair of row i.
CatLastGood(file, i) ==
  LET js == {j \in 1..Len(file) : GoodCat(file[j]) /\ file[j].marca = file[i].marca
                                   /\ file[j].modelo = file[i].modelo}
  IN file[CHOOSE j \in js : \A l \in js : l <= j]

\* A well-formed catalog row of the file is not reflected by the table.
CatLost(table, file) ==
  \E i \in 1..Len(file) :
     /\ GoodCat(file[i])
     /\ ~\E k \in 1..Len(table) : table[k] = CatBound(CatLastGood(file, i))

\* tab_imp: a catalog spreadsheet is uploaded.
ImportCatalogo ==
  \E file \in CatalogFiles :
    LET db == seed_from_assets([ab |-> abastecimentos, mo |-> modelos])
        res == cat_tx(db.mo, file, FALSE)
    IN /\ modelos' = res.table
       /\ abastecimentos' = db.ab
       /\ report' = [op |-> "imp_cat",
                     n |-> IF res.exc THEN NoCount ELSE res.ok,
                     bad |-> Count(file, GoodCat) < Len(file),
                     lost |-> CatLost(res.table, file),
                     stored |-> IF res.exc THEN 0 ELSE Len(file)]
       /\ UNCHANGED <<ccvars, rkvars>>

\* tab_imp: a fuel-log spreadsheet is uploaded.
ImportAbastecimentos ==
  \E file \in AbastFiles :
    LET db == seed_from_assets([ab |-> abastecimentos, mo |-> modelos])
        res == abast_tx(db.ab, file)
    IN /\ Len(db.ab) + Len(file) <= MaxRows
       /\ abastecimentos' = res.table
       /\ modelos' = db.mo
       /\ report' = [op |-> "imp_abast",
                     n |-> IF res.exc THEN NoCount ELSE res.ok,
                     bad |-> Count(file, GoodAbast) < Len(file),
                     lost |-> Count(file, GoodAbast) > Len(res.table) - Len(db.ab),
                     stored |-> Len(res.table) - Len(db.ab)]
       /\ UNCHANGED <<ccvars, rkvars>>

Next == Rerun \/ SubmitForm \/ SaveCatalog \/ ImportCatalogo \/ ImportAbastecimentos

Spec == Init /\ [][Next]_vars

(***************************************************************************)
(* compute_costs called on its own, on inputs of its declared type         *)
(* (a float and two optional floats).                                      *)
(***************************************************************************)
CostLitros == {Num(0), Num(4), Num(10), Num(20)}
CostPrecos == {None, Num(0), Num(2), Rat(5, 2)}
CostCustos == {None, Num(0), Num(10), Num(25)}

InitCosts ==
  /\ abastecimentos = init_db.ab
  /\ modelos = init_db.mo
  /\ report = NoReport
  /\ cc_in \in {<<l, p, c>> : l \in CostLitros, p \in CostPrecos, c \in CostCustos}
  /\ cc_out = NoCall
  /\ rk_head = <<>>
  /\ rk_fill = 0
  /\ rk_out = <<>>

CallComputeCosts ==
  /\ cc_out = NoCall
  /\ cc_out' = compute_costs(cc_in[1], cc_in[2], cc_in[3])
  /\ UNCHANGED <<cc_in, dbvars, rkvars>>

NextInput ==
  /\ cc_out # NoCall
  /\ cc_in' \in {<<l, p, c>> : l \in CostLitros, p \in CostPrecos, c \in CostCustos}
  /\ cc_out' = NoCall
  /\ UNCHANGED <<dbvars, rkvars>>

NextCosts == CallComputeCosts \/ NextInput

SpecCosts == InitCosts /\ [][NextCosts]_vars

(***************************************************************************)
(* The ranking on frames of up to HeadLimit + MaxOver + MaxHead records:   *)
(* rk_head is a free prefix of L/ha values, followed by rk_fill records    *)
(* of one and the same value.                                              *)
(***************************************************************************)
RankValues == {Num(1), Num(3), NaN, Inf}
FillValue == Num(2)
FillSizes == {0, 1} \cup ((HeadLimit - MaxHead)..(HeadLimit + MaxOver))

RankFrame(hd, fill) ==
  AsSeq([i \in 1..(Len(hd) + fill) |->
     [id |-> i, L_ha |-> IF i <= Len(hd) THEN hd[i] ELSE FillValue]])

AddRecord ==
  /\ Len(rk_head) < MaxHead
  /\ \E v \in RankValues :
       /\ rk_head' = Append(rk_head, v)
       /\ rk_out' = ranking(RankFrame(rk_head', rk_fill))
  /\ UNCHANGED <<rk_fill, dbvars, ccvars>>

FillRecords ==
  /\ \E n \in FillSizes :
       /\ rk_fill' = n
       /\ rk_out' = ranking(RankFrame(rk_head, n))
  /\ UNCHANGED <<rk_head, dbvars, ccvars>>

NextRank == AddRecord \/ FillRecords

SpecRank == Init /\ [][NextRank]_vars

(***************************************************************************)
(* Properties.                                                             *)
(***************************************************************************)
\* Exact comparison of finite values: a * b = c.
ProductIs(a, b, c) ==
  IsNum(a) /\ IsNum(b) /\ IsNum(c) /\ a.n * b.n * c.d = c.n * a.d * b.d

\* C1: compute_costs follows the resolver rules on every input: a missing
\* price is cost / litres when the cost is given and litres > 0; a missing
\* cost is price * litres when the price is given; two missing values stay
\* missing; with zero litres and only the cost given the price stays missing
\* and the cost is returned as given; a value given on input is returned
\* unaltered.
C1_ResolverRules ==
  cc_out # NoCall =>
    LET litros == cc_in[1]
        preco == cc_in[2]
        custo == cc_in[3]
    IN /\ preco # None => cc_out[1] = preco
       /\ custo # None => cc_out[2] = custo
       /\ (preco = None /\ custo # None /\ litros.n > 0) => ProductIs(cc_out[1], litros, custo)
       /\ (custo = None /\ preco # None) => ProductIs(preco, litros, cc_out[2])
       /\ (preco = None /\ custo = None) => cc_out = <<None, None>>
       /\ (litros.n = 0 /\ preco = None /\ custo # None) => cc_out = <<None, custo>>

C1_Witness ==
  /\ cc_in = <<Num(10), None, Num(25)>>
  /\ cc_out = <<Rat(5, 2), Num(25)>>

\* C2: in every derived record a rate whose denominator is zero is missing:
\* zero hours leave L/h and Custo/h missing, a zero area leaves L/m2, L/ha
\* and Custo/ha missing (never zero, never infinite).
C2_ZeroDenominatorIsMissing ==
  LET df == Derived
  IN \A i \in 1..Len(df) :
       /\ EqZero(df[i].horas) => IsNA(df[i].L_h) /\ IsNA(df[i].Custo_h)
       /\ EqZero(df[i].area_valor) =>
            IsNA(df[i].L_m2) /\ IsNA(df[i].L_ha) /\ IsNA(df[i].Custo_ha)

\* C3: every stored fuel-log entry has litres > 0, hours > 0 and area > 0.
C3_StoredEntriesPositive ==
  \A i \in 1..Len(abastecimentos) :
    /\ GtZero(abastecimentos[i].litros)
    /\ GtZero(abastecimentos[i].horas)
    /\ GtZero(abastecimentos[i].area_valor)

\* C4: after the import of a spreadsheet with a malformed row, every
\* well-formed row of the file is stored and the reported count is the
\* number of rows that were stored.
C4_ImportIsPerRow ==
  (report.op \in {"imp_abast", "imp_cat"} /\ report.bad) =>
    /\ ~report.lost
    /\ report.n = report.stored

\* C5: the catalog never holds two entries of one (brand, model) pair, and
\* a step keeps every entry in its place with its pair: it may only replace
\* the rated consumption, and it removes no entry.
UniquePairs(table) ==
  \A i, j \in 1..Len(table) :
    (table[i].marca = table[j].marca /\ table[i].modelo = table[j].modelo) => i = j

EntriesKept ==
  /\ Len(modelos') >= Len(modelos)
  /\ \A i \in 1..Len(modelos) :
       /\ modelos'[i].marca = modelos[i].marca
       /\ modelos'[i].modelo = modelos[i].modelo

C5_CatalogKeyedAndKept == [][UniquePairs(modelos') /\ EntriesKept]_vars

C5_Witness ==
  /\ Len(modelos) = 2
  /\ modelos[1] = Modelo("A", "X", Num(0))
  /\ modelos[2] = Modelo("B", "X", Num(6))

\* The sum of f over the finite set S, and the mean of the values of f
\* that are not missing.
RECURSIVE SumOver(_, _)
SumOver(S, f) ==
  IF S = {} THEN Num(0)
  ELSE LET x == CHOOSE y \in S : TRUE IN FAdd(f[x], SumOver(S \ {x}, f))

MeanOver(S, f) ==
  LET T == {x \in S : NotNA(f[x])}
  IN IF T = {} THEN NaN ELSE FDiv(SumOver(T, f), Num(Cardinality(T)))

Entries == 1..Len(abastecimentos)
RatioLh == AsSeq([i \in Entries |-> FDiv(abastecimentos[i].litros, abastecimentos[i].horas)])

\* The (brand, model) pairs of the stored entries.
EntryPairs ==
  {<<abastecimentos[i].marca, abastecimentos[i].modelo>> :
     i \in {j \in Entries : abastecimentos[j].marca # NULL /\ abastecimentos[j].modelo # NULL}}

EntriesOf(k) ==
  {i \in Entries : abastecimentos[i].marca = k[1] /\ abastecimentos[i].modelo = k[2]}

\* The rated consumption the catalog holds for a pair, None when it holds none.
RatedOf(k) ==
  IF \E i \in 1..Len(modelos) : modelos[i].marca = k[1] /\ modelos[i].modelo = k[2]
  THEN (CHOOSE m \in {modelos[i] : i \in 1..Len(modelos)} :
          m.marca = k[1] /\ m.modelo = k[2]).consumo_fabricante_l_h
  ELSE None

Comparison == real_x_fabricante(Derived, load_modelos(modelos))

\* v is x rounded to one decimal: a number of tenths at most 0.05 from x.
IsRounded1(v, x) ==
  /\ IsNum(v) /\ IsNum(x)
  /\ 10 % v.d = 0
  /\ LET diff == FSub(v, x) IN Abs(diff.n) * 20 <= diff.d

\* C6: the comparison has one row for every (brand, model) pair of the
\* entries, with the mean L/h of the pair's entries as its real value; its
\* percentage is ((real - rated) / rated) * 100 rounded to one decimal when
\* the catalog holds a rated consumption > 0 for the pair and the quotient
\* is finite, and it is missing in every other case (no catalog entry, no
\* rated value, rated <= 0).
C6_PercentDifferenceGuarded ==
  LET comp == Comparison
      ratio == RatioLh
  IN \A k \in EntryPairs :
    \E g \in 1..Len(comp) :
      LET row == comp[g]
          real == MeanOver(EntriesOf(k), ratio)
          rated == RatedOf(k)
      IN /\ row.marca = k[1] /\ row.modelo = k[2]
         /\ \A h \in 1..Len(comp) :
              (comp[h].marca = k[1] /\ comp[h].modelo = k[2]) => h = g
         /\ row.real_Lh = real
         /\ IF IsNum(rated) /\ rated.n > 0 /\ IsNum(real)
            THEN IsRounded1(row.dif_pct, FMul(FDiv(FSub(real, rated), rated), Num(100)))
            ELSE IsNA(row.dif_pct)

C6_Witness ==
  LET comp == Comparison
  IN /\ \E g \in 1..Len(comp) :
          comp[g].fab_Lh = Num(6) /\ comp[g].dif_pct = Rat(0 - 333, 10)
     /\ \E g \in 1..Len(comp) :
          comp[g].fab_Lh = Num(0) /\ IsNum(comp[g].real_Lh) /\ IsNA(comp[g].dif_pct)

\* The total of the group S of the derived records df: missing when no
\* record of the group has a cost, the sum of the costs that are there
\* otherwise.
IsGroupCost(total, df, S) ==
  LET custo == AsSeq([i \in 1..Len(df) |-> df[i].custo_total])
      T == {i \in S : NotNA(custo[i])}
  IN IF T = {} THEN IsNA(total) ELSE total = SumOver(T, custo)

\* C7: in the monthly and in the per-equipment consolidation the total cost
\* of a group is the sum of the costs of the group's records that have one,
\* and it is missing, not zero, when no record of the group has a cost.
C7_GroupCostMissingWhenAllMissing ==
  LET df == Derived
      cm == consolidado_mensal(df)
      pe == por_equipamento(df)
  IN /\ \A g \in 1..Len(cm) :
          IsGroupCost(cm[g].custo_total, df,
            {i \in 1..Len(df) : df[i].data[1] = cm[g].mes[1] /\ df[i].data[2] = cm[g].mes[2]})
     /\ \A g \in 1..Len(pe) :
          IsGroupCost(pe[g].custo_total, df,
            {i \in 1..Len(df) : df[i].marca = pe[g].marca /\ df[i].modelo = pe[g].modelo})

RankIn == RankFrame(rk_head, rk_fill)
Defined(frame) == {i \in 1..Len(frame) : NotNA(frame[i].L_ha)}

\* C8: the ranking lists at most 50 records of the frame, each once, in
\* ascending order of L/ha with every record whose L/ha is missing after
\* every record whose L/ha is defined; no record left out sorts before a
\* listed one, so a record with a missing L/ha is listed only when fewer
\* than 50 records have a defined one.
C8_RankingAscendingMissingLast ==
  LET frame == RankIn
      out == rk_out
      listed == {out[p].id : p \in 1..Len(out)}
  IN /\ Len(out) <= 50
     /\ Len(out) = IF Len(frame) < 50 THEN Len(frame) ELSE 50
     /\ \A p \in 1..Len(out) : out[p] = frame[out[p].id]
     /\ Cardinality(listed) = Len(out)
     /\ \A p \in 1..(Len(out) - 1) :
          /\ IsNA(out[p].L_ha) => IsNA(out[p + 1].L_ha)
          /\ (NotNA(out[p].L_ha) /\ NotNA(out[p + 1].L_ha))
               => ~FLess(out[p + 1].L_ha, out[p].L_ha)
     /\ (\E p \in 1..Len(out) : IsNA(out[p].L_ha)) => Cardinality(Defined(frame)) < 50
     /\ \A i \in (1..Len(frame)) \ listed :
          \/ IsNA(frame[i].L_ha)
          \/ /\ NotNA(out[Len(out)].L_ha)
             /\ ~FLess(frame[i].L_ha, out[Len(out)].L_ha)

C8_Witness ==
  LET frame == RankIn
  IN /\ Cardinality(Defined(frame)) >= 50
     /\ \E i \in 1..Len(frame) : IsNA(frame[i].L_ha)
     /\ \E i \in 1..Len(frame) : frame[i].L_ha = Inf
     /\ Len(rk_out) = 50
     /\ \A p \in 1..Len(rk_out) : IsNum(rk_out[p].L_ha)

\* Two optional values agree: both are missing, or they are the same number.
SameOptional(a, b) == (IsNA(a) /\ IsNA(b)) \/ a = b

\* C9: the price and the cost of every derived record are compute_costs of
\* the litres, price and cost stored in its own entry.
C9_DerivedCostsFromOwnEntry ==
  LET df == Derived
  IN \A i \in 1..Len(df) :
       LET e == abastecimentos[df[i].id]
           cc == compute_costs(e.litros, e.preco_por_litro, e.custo_total)
       IN /\ SameOptional(df[i].preco_por_litro, cc[1])
          /\ SameOptional(df[i].custo_total, cc[2])

InMonth(mes) ==
  {i \in Entries : abastecimentos[i].data[1] = mes[1] /\ abastecimentos[i].data[2] = mes[2]}
Litros == AsSeq([i \in Entries |-> abastecimentos[i].litros])
Horas == AsSeq([i \in Entries |-> abastecimentos[i].horas])

\* C10: every entry falls in exactly one bucket, that of the year and month
\* of its date; a bucket's total litres and total hours are the sums over
\* its entries, and its mean L/h is the arithmetic mean of its entries'
\* own litres / hours ratios.
C10_MonthlyBuckets ==
  LET cm == consolidado_mensal(Derived)
      litros == Litros
      horas == Horas
      ratio == RatioLh
  IN /\ \A i \in Entries : \E g \in 1..Len(cm) : i \in InMonth(cm[g].mes)
     /\ \A g, h \in 1..Len(cm) : cm[g].mes = cm[h].mes => g = h
     /\ \A g \in 1..Len(cm) :
          LET S == InMonth(cm[g].mes)
          IN /\ S # {}
             /\ cm[g].litros_total = SumOver(S, litros)
             /\ cm[g].horas_total = SumOver(S, horas)
             /\ cm[g].L_h_medio = MeanOver(S, ratio)

C10_Witness ==
  LET cm == consolidado_mensal(Derived)
  IN /\ Len(cm) = 2
     /\ \E g \in 1..Len(cm) :
          /\ Cardinality(InMonth(cm[g].mes)) = 2
          /\ cm[g].L_h_medio = Rat(9, 2)
          /\ cm[g].L_h_medio # FDiv(cm[g].litros_total, cm[g].horas_total)
     /\ \E g \in 1..Len(cm) : cm[g].L_h_medio = Num(5)

\* What the form may store for the entered price and cost: neither when
\* both are 0, the entered values where they are not 0, and for a single
\* entered value the other one derived from it and the litres.
FormCostsStored(r, litros, preco, custo) ==
  /\ (r.preco_por_litro = None) <=> (r.custo_total = None)
  /\ EqZero(preco) /\ EqZero(custo) => r.preco_por_litro = None /\ r.custo_total = None
  /\ ~EqZero(preco) => r.preco_por_litro = preco
  /\ ~EqZero(custo) => r.custo_total = custo
  /\ EqZero(preco) /\ ~EqZero(custo) => ProductIs(r.preco_por_litro, litros, custo)
  /\ ~EqZero(preco) /\ EqZero(custo) => ProductIs(preco, litros, r.custo_total)

\* C11: every entry the registration form stores has price and cost both
\* present or both absent; when exactly one is entered the other is derived
\* from it and the litres before the insert, and an entered 0 counts as not
\* supplied.  A form submission that stores an entry stores the entered
\* brand, model, date, litres, hours and area as its last row, so the step
\* is matched against the form with those values and every entered price
\* and cost.
C11_FormStoresPriceAndCostTogether ==
  [][abastecimentos' # <<>> =>
       LET r == abastecimentos'[Len(abastecimentos')]
       IN \A preco \in FormPreco, custo \in FormCusto :
            (/\ ~FormRejects(r.marca, r.modelo, r.litros, r.horas, r.area_valor)
             /\ SubmitFormWith(r.marca, r.modelo, r.data, r.litros, r.horas,
                               r.area_valor, r.area_unidade, preco, custo))
            => FormCostsStored(r, r.litros, preco, custo)]_vars

\* An entry only the form can have stored (the date of the form, an area in
\* hectares), with the price 2 and the cost 20 of 10 litres.
C11_Witness ==
  \E i \in 1..Len(abastecimentos) :
    /\ abastecimentos[i].data = D_Jan05
    /\ abastecimentos[i].area_unidade = "ha"
    /\ abastecimentos[i].litros = Num(10)
    /\ abastecimentos[i].preco_por_litro = Num(2)
    /\ abastecimentos[i].custo_total = Num(20)

\* C12: the record counts of the per-equipment groups add up to the number
\* of stored entries, the entries with a null brand or model included.
C12_GroupCountsCoverAllEntries ==
  LET ge == por_equipamento(Derived)
      counts == [g \in 1..Len(ge) |-> ge[g].abastecimentos]
      total[g \in 0..Len(ge)] == IF g = 0 THEN 0 ELSE total[g - 1] + counts[g]
  IN total[Len(ge)] = Len(abastecimentos)

====
